---- MODULE Spec2Model ----
(***************************************************************************)
(* The scenario-to-deployment compiler of generate_compose.py: main reads  *)
(* scenario.toml, parse_scenario resolves every agent's image and checks   *)
(* the participant names, and three artifacts are rendered and written:    *)
(* docker-compose.yml, a2a-scenario.toml and .env.example.                 *)
(*                                                                         *)
(* A Python str is a tuple of one-character strings, so that startswith,   *)
(* rstrip, urlparse, re.findall and sorted are computed character by       *)
(* character.  A Python dict is a function whose DOMAIN is its key set, so *)
(* that `"image" in agent` is `"image" \in DOMAIN agent`.                  *)
(***************************************************************************)
EXTENDS Integers, Sequences, FiniteSets, TLC

VARIABLES
    pc,             \* the statement main is at
    exists,         \* args.scenario.exists()
    GITHUB_ACTIONS, \* os.environ.get("GITHUB_ACTIONS"): None, or its value
    scenario_file,  \* the content of scenario.toml, as tomli parses it
    data,           \* parse_scenario's dict, mutated in place by resolve_image
    idx,            \* position of the participants loop of parse_scenario
    out,            \* what has been printed, one record per print call
    exc,            \* the uncaught exception that ended the run, or None
    resolved,       \* the calls of resolve_image so far, each with how it ended
    lookups,        \* the calls of fetch_agent_info: agent, id and reply
    files,          \* the three artifact files
    arg_agent_name, \* get_agent_base_path's agent_name argument
    arg_env,        \* get_agent_base_path's env argument
    ret             \* what get_agent_base_path and get_health_check_path returned

vars == <<pc, exists, GITHUB_ACTIONS, scenario_file, data, idx, out, exc,
          resolved, lookups, files, arg_agent_name, arg_env, ret>>

-----------------------------------------------------------------------------
(* Python values *)

None == <<"None">>

Get(d, k, default) == IF k \in DOMAIN d THEN d[k] ELSE default

Truthy(s) == s # None /\ s # <<>>

Range(f) == {f[k] : k \in DOMAIN f}

StartsWith(s, prefix) ==
    Len(s) >= Len(prefix) /\ SubSeq(s, 1, Len(prefix)) = prefix

EndsWith(s, suffix) ==
    Len(s) >= Len(suffix) /\ SubSeq(s, Len(s) - Len(suffix) + 1, Len(s)) = suffix

RECURSIVE RStrip(_, _)
RStrip(s, c) ==
    IF s # <<>> /\ s[Len(s)] = c THEN RStrip(SubSeq(s, 1, Len(s) - 1), c) ELSE s

RECURSIVE LStrip(_, _)
LStrip(s, c) == IF s # <<>> /\ s[1] = c THEN LStrip(Tail(s), c) ELSE s

\* str.find for a set of characters: the first position >= from, 0 when none
Find(s, cs, from) ==
    LET hits == {k \in from..Len(s) : s[k] \in cs}
    IN  IF hits = {} THEN 0 ELSE CHOOSE k \in hits : \A h \in hits : k <= h

RECURSIVE Join(_, _)
Join(strs, sep) ==
    IF strs = <<>> THEN <<>>
    ELSE IF Len(strs) = 1 THEN strs[1]
    ELSE strs[1] \o sep \o Join(Tail(strs), sep)

RECURSIVE StrDigits(_)
StrDigits(n) ==
    LET d == <<"0", "1", "2", "3", "4", "5", "6", "7", "8", "9">>
    IN  IF n < 10 THEN <<d[n + 1]>> ELSE StrDigits(n \div 10) \o <<d[(n % 10) + 1]>>

Ord ==
      (" " :> 32) @@ ("!" :> 33) @@ ("#" :> 35) @@ ("$" :> 36) @@ ("%" :> 37) @@ 
      ("&" :> 38) @@ ("'" :> 39) @@ ("(" :> 40) @@ (")" :> 41) @@ ("*" :> 42) @@ 
      ("+" :> 43) @@ ("," :> 44) @@ ("-" :> 45) @@ ("." :> 46) @@ ("/" :> 47) @@ 
      ("0" :> 48) @@ ("1" :> 49) @@ ("2" :> 50) @@ ("3" :> 51) @@ ("4" :> 52) @@ 
      ("5" :> 53) @@ ("6" :> 54) @@ ("7" :> 55) @@ ("8" :> 56) @@ ("9" :> 57) @@ 
      (":" :> 58) @@ (";" :> 59) @@ ("<" :> 60) @@ ("=" :> 61) @@ (">" :> 62) @@ 
      ("?" :> 63) @@ ("@" :> 64) @@ ("A" :> 65) @@ ("B" :> 66) @@ ("C" :> 67) @@ 
      ("D" :> 68) @@ ("E" :> 69) @@ ("F" :> 70) @@ ("G" :> 71) @@ ("H" :> 72) @@ 
      ("I" :> 73) @@ ("J" :> 74) @@ ("K" :> 75) @@ ("L" :> 76) @@ ("M" :> 77) @@ 
      ("N" :> 78) @@ ("O" :> 79) @@ ("P" :> 80) @@ ("Q" :> 81) @@ ("R" :> 82) @@ 
      ("S" :> 83) @@ ("T" :> 84) @@ ("U" :> 85) @@ ("V" :> 86) @@ ("W" :> 87) @@ 
      ("X" :> 88) @@ ("Y" :> 89) @@ ("Z" :> 90) @@ ("[" :> 91) @@ ("]" :> 93) @@ 
      ("^" :> 94) @@ ("_" :> 95) @@ ("a" :> 97) @@ ("b" :> 98) @@ ("c" :> 99) @@ 
      ("d" :> 100) @@ ("e" :> 101) @@ ("f" :> 102) @@ ("g" :> 103) @@ ("h" :> 104) @@ 
      ("i" :> 105) @@ ("j" :> 106) @@ ("k" :> 107) @@ ("l" :> 108) @@ ("m" :> 109) @@ 
      ("n" :> 110) @@ ("o" :> 111) @@ ("p" :> 112) @@ ("q" :> 113) @@ ("r" :> 114) @@ 
      ("s" :> 115) @@ ("t" :> 116) @@ ("u" :> 117) @@ ("v" :> 118) @@ ("w" :> 119) @@ 
      ("x" :> 120) @@ ("y" :> 121) @@ ("z" :> 122) @@ ("{" :> 123) @@ ("|" :> 124) @@ 
      ("}" :> 125) @@ ("~" :> 126)

\* str.__lt__: code-point lexicographic order (Ord: the printable ASCII
\* characters but the quote, the backslash and the backtick)
StrLess(a, b) ==
    \E k \in 1..(Len(a) + 1) :
        /\ k <= Len(b)
        /\ \A j \in 1..(k - 1) : a[j] = b[j]
        /\ (k = Len(a) + 1 \/ Ord[a[k]] < Ord[b[k]])

RECURSIVE Sorted(_)
Sorted(S) ==
    IF S = {} THEN <<>>
    ELSE LET m == CHOOSE x \in S : \A y \in S \ {x} : StrLess(x, y)
         IN  <<m>> \o Sorted(S \ {m})

Alpha == {"a", "b", "c", "d", "e", "f", "g", "h", "i", "j", "k", "l", "m", "n", "o", "p", "q",
      "r", "s", "t", "u", "v", "w", "x", "y", "z", "A", "B", "C", "D", "E", "F", "G", "H",
      "I", "J", "K", "L", "M", "N", "O", "P", "Q", "R", "S", "T", "U", "V", "W", "X", "Y",
      "Z"}

SchemeChars == Alpha \cup {"0", "1", "2", "3", "4", "5", "6", "7", "8", "9", "+", "-", "."}

\* urllib.parse.urlparse(url).path: leading spaces are dropped, the scheme
\* ends at the first ":", the netloc after "//" at the first of "/?#", then
\* fragment and query are cut off (no ";" parameters, no "[" and no control
\* characters occur in the urls drawn here)
\* The scheme, when the text before the first ":" is one, is cut off with its ":"
CutScheme(url, colon) ==
    IF /\ colon > 1
       /\ url[1] \in Alpha
       /\ \A k \in 1..(colon - 1) : url[k] \in SchemeChars
    THEN SubSeq(url, colon + 1, Len(url))
    ELSE url

\* The netloc, which follows "//", ends at the first of "/?#" or with the url
CutNetloc(url, delim) ==
    IF StartsWith(url, <<"/", "/">>)
    THEN IF delim = 0 THEN <<>> ELSE SubSeq(url, delim, Len(url))
    ELSE url

\* What precedes the first separator found at position at (0: there is none)
CutAt(url, at) == IF at = 0 THEN url ELSE SubSeq(url, 1, at - 1)

SplitScheme(url) == CutScheme(url, Find(url, {":"}, 1))

SplitNetloc(url) == CutNetloc(url, Find(url, {"/", "?", "#"}, 3))

SplitFragment(url) == CutAt(url, Find(url, {"#"}, 1))

SplitQuery(url) == CutAt(url, Find(url, {"?"}, 1))

UrlPath(raw) ==
    SplitQuery(SplitFragment(SplitNetloc(SplitScheme(LStrip(raw, " ")))))

\* A search that stops at the first match, where findall goes on
RECURSIVE FindFirst(_, _)
FindFirst(s, k) ==
    IF k > Len(s) THEN <<>>
    ELSE LET close == Find(s, {"}"}, k + 2)
         IN  IF /\ k + 1 <= Len(s)
                /\ s[k] = "$"
                /\ s[k + 1] = "{"
                /\ close > k + 2
             THEN <<SubSeq(s, k + 2, close - 1)>>
             ELSE FindFirst(s, k + 1)

\* The findall of generate_env_file's pattern, scanning s from position k: the
\* leftmost match first, the scan resuming after its closing brace
RECURSIVE FindAll(_, _)
FindAll(s, k) ==
    IF k > Len(s) THEN <<>>
    ELSE LET close == Find(s, {"}"}, k + 2)
         IN  IF /\ k + 1 <= Len(s)
                /\ s[k] = "$"
                /\ s[k + 1] = "{"
                /\ close > k + 2
             THEN <<SubSeq(s, k + 2, close - 1)>> \o FindAll(s, close + 1)
             ELSE FindAll(s, k + 1)

-----------------------------------------------------------------------------
(* Module constants *)

COMPOSE_PATH == "docker-compose.yml"
A2A_SCENARIO_PATH == "a2a-scenario.toml"
ENV_PATH == ".env.example"

DEFAULT_PORT == 9009

DEFAULT_ENV_VARS == [PYTHONUNBUFFERED |-> <<"1">>]

GREEN_SERVICE == <<"g", "r", "e", "e", "n", "-", "a", "g", "e", "n", "t">>

WELL_KNOWN == <<"/", ".", "w", "e", "l", "l", "-", "k", "n", "o", "w", "n", "/", "a", "g", "e", "n", "t", "-", "c", "a", "r", "d", ".", "j", "s", "o", "n">>

-----------------------------------------------------------------------------
(* Endpoint paths *)

\* path = urlparse(card_url).path.rstrip("/")
CardUrlPath(card_url) == RStrip(UrlPath(card_url), "/")

\* The environment consulted before the explicit agent_name
get_agent_base_path_env_first(agent_name, env) ==
    IF /\ DOMAIN env # {}
       /\ Get(env, "CARD_URL", <<>>) # <<>>
       /\ ~StartsWith(Get(env, "CARD_URL", <<>>), <<"$", "{">>)
       /\ CardUrlPath(Get(env, "CARD_URL", <<>>)) # <<>>
    THEN CardUrlPath(Get(env, "CARD_URL", <<>>))
    ELSE IF Truthy(agent_name) THEN <<"/", "a", "2", "a", "/">> \o agent_name
    ELSE <<>>

\* The alias first; else the path of env's CARD_URL, when env is not empty, the
\* url is neither empty nor a placeholder and its path is not empty; else ""
get_agent_base_path(agent_name, env) ==
    IF Truthy(agent_name) THEN <<"/", "a", "2", "a", "/">> \o agent_name
    ELSE IF /\ DOMAIN env # {}
            /\ Get(env, "CARD_URL", <<>>) # <<>>
            /\ ~StartsWith(Get(env, "CARD_URL", <<>>), <<"$", "{">>)
            /\ CardUrlPath(Get(env, "CARD_URL", <<>>)) # <<>>
    THEN CardUrlPath(Get(env, "CARD_URL", <<>>))
    ELSE <<>>

get_health_check_path(agent_name, env) ==
    get_agent_base_path(agent_name, env) \o WELL_KNOWN

get_pull_policy(image) ==
    IF EndsWith(image, <<":", "l", "o", "c", "a", "l">>) THEN "pull_policy: never"
    ELSE "platform: linux/amd64"

-----------------------------------------------------------------------------
(* Image resolution *)

\* One print call: the format string and the values substituted into it
Printed(fmt, args) == [fmt |-> fmt, args |-> args]

FMT_BOTH == "Error: {name} has both 'image' and 'agentbeats_id' - use one or the other"
FMT_NEITHER == "Error: {name} must have either 'image' or 'agentbeats_id' field"
FMT_CI == "Error: {name} requires 'agentbeats_id' for GitHub Actions (use 'image' for local testing only)"
FMT_USING == "Using {name} image: {agent['image']}"
FMT_RESOLVED == "Resolved {name} image: {agent['image']}"
FMT_DUPLICATES == "Error: Duplicate participant names found: {', '.join(duplicates)}"

\* What requests.get(url, timeout=30) and response.json() can come to
Replies ==
    { [status |-> "ok", json |-> [docker_image |-> <<"r", ":", "1">>]],
      [status |-> "ok", json |-> [name |-> <<"r">>]],
      [status |-> "HTTPError"],
      [status |-> "JSONDecodeError"],
      [status |-> "RequestException"] }

\* A lookup that answers a failed request with a default image and goes on
fetch_agent_info_tolerant(agentbeats_id, reply) ==
    IF reply.status = "ok"
    THEN [exit |-> FALSE, info |-> reply.json, printed |-> <<>>]
    ELSE [exit |-> FALSE, info |-> [docker_image |-> <<"r", ":", "1">>], printed |-> <<>>]

fetch_agent_info(agentbeats_id, reply) ==
    CASE reply.status = "ok" ->
            [exit |-> FALSE, info |-> reply.json, printed |-> <<>>]
      [] reply.status = "HTTPError" ->
            [exit |-> TRUE, info |-> None, printed |->
                <<Printed("Error: Failed to fetch agent {agentbeats_id}: {e}",
                          <<agentbeats_id>>)>>]
      [] reply.status = "JSONDecodeError" ->
            [exit |-> TRUE, info |-> None, printed |->
                <<Printed("Error: Invalid JSON response for agent {agentbeats_id}",
                          <<agentbeats_id>>)>>]
      [] reply.status = "RequestException" ->
            [exit |-> TRUE, info |-> None, printed |->
                <<Printed("Error: Request failed for agent {agentbeats_id}: {e}",
                          <<agentbeats_id>>)>>]

NoException == "none"

\* The outcome of a call: the agent dict as the call leaves it, what it
\* printed, whether it ended in sys.exit(1) or in an uncaught exception, and
\* the catalog requests it made
Outcome(agent, printed, exit, raised, fetched) ==
    [agent |-> agent, printed |-> printed, exit |-> exit, raised |-> raised,
     fetched |-> fetched]

\* The flag as a set-but-empty GITHUB_ACTIONS would also raise it
github_actions_is_set == GITHUB_ACTIONS # None

\* os.environ.get("GITHUB_ACTIONS"), taken as a condition
in_github_actions == Truthy(GITHUB_ACTIONS)

\* resolve_image without its first check: an agent with both fields is taken
\* as one with an image
resolve_image_unchecked(agent, name, reply) ==
    LET has_image == "image" \in DOMAIN agent
        has_id    == "agentbeats_id" \in DOMAIN agent
        fetch     == fetch_agent_info(agent.agentbeats_id, reply)
        request   == <<[id |-> agent.agentbeats_id, reply |-> reply]>>
    IN  IF ~has_image /\ ~has_id
        THEN Outcome(agent,
                <<Printed(FMT_NEITHER, <<name>>)>>, TRUE, NoException, <<>>)
        ELSE IF has_image
        THEN IF in_github_actions
             THEN Outcome(agent,
                     <<Printed(FMT_CI, <<name>>)>>, TRUE, NoException, <<>>)
             ELSE Outcome(agent,
                     <<Printed(FMT_USING, <<name, agent.image>>)>>, FALSE, NoException, <<>>)
        ELSE IF fetch.exit
        THEN Outcome(agent, fetch.printed, TRUE, NoException, request)
        ELSE IF "docker_image" \notin DOMAIN fetch.info
        THEN Outcome(agent, <<>>, FALSE, "KeyError", request)
        ELSE Outcome(("image" :> fetch.info.docker_image) @@ agent,
                <<Printed(FMT_RESOLVED, <<name, fetch.info.docker_image>>)>>, FALSE, NoException, request)

resolve_image(agent, name, reply) ==
    LET has_image == "image" \in DOMAIN agent
        has_id    == "agentbeats_id" \in DOMAIN agent
        fetch     == fetch_agent_info(agent.agentbeats_id, reply)
        request   == <<[id |-> agent.agentbeats_id, reply |-> reply]>>
    IN  IF has_image /\ has_id
        THEN Outcome(agent,
                <<Printed(FMT_BOTH, <<name>>)>>, TRUE, NoException, <<>>)
        ELSE IF ~has_image /\ ~has_id
        THEN Outcome(agent,
                <<Printed(FMT_NEITHER, <<name>>)>>, TRUE, NoException, <<>>)
        ELSE IF has_image
        THEN IF in_github_actions
             THEN Outcome(agent,
                     <<Printed(FMT_CI, <<name>>)>>, TRUE, NoException, <<>>)
             ELSE Outcome(agent,
                     <<Printed(FMT_USING, <<name, agent.image>>)>>, FALSE, NoException, <<>>)
        ELSE IF fetch.exit
        THEN Outcome(agent, fetch.printed, TRUE, NoException, request)
        ELSE IF "docker_image" \notin DOMAIN fetch.info
        THEN Outcome(agent, <<>>, FALSE, "KeyError", request)
        ELSE Outcome(("image" :> fetch.info.docker_image) @@ agent,
                <<Printed(FMT_RESOLVED, <<name, fetch.info.docker_image>>)>>, FALSE, NoException, request)

GREEN_LABEL == <<"g", "r", "e", "e", "n", "_", "a", "g", "e", "n", "t">>

ParticipantLabel(participant) ==
    <<"p", "a", "r", "t", "i", "c", "i", "p", "a", "n", "t", " ", "'">> \o Get(participant, "name", <<"u", "n", "k", "n", "o", "w", "n">>) \o <<"'">>

-----------------------------------------------------------------------------
(* Rendering *)

\* str.replace('\\', '\\\\').replace('"', '\\"')
RECURSIVE Escape(_)
Escape(s) ==
    IF s = <<>> THEN <<>>
    ELSE (CASE s[1] = "\\" -> <<"\\", "\\">>
            [] s[1] = "\"" -> <<"\\", "\"">>
            [] OTHER -> <<s[1]>>) \o Escape(Tail(s))

\* The environment mapping of a service block: key -> quoted value
format_env_vars(env_dict) ==
    LET env_vars == env_dict @@ DEFAULT_ENV_VARS
    IN  [key \in DOMAIN env_vars |-> Escape(env_vars[key])]

\* Dependencies that wait for the start, not for the health, of a service
format_depends_on_started(services) ==
    IF services = <<>> THEN <<>>
    ELSE [k \in DOMAIN services |->
             [service |-> services[k], condition |-> "service_started"]]

\* The depends_on mapping of a service block, in text order
format_depends_on(services) ==
    IF services = <<>> THEN <<>>
    ELSE [k \in DOMAIN services |->
             [service |-> services[k], condition |-> "service_healthy"]]

CardUrl(host) == <<"h", "t", "t", "p", ":", "/", "/">> \o host \o <<":">> \o StrDigits(DEFAULT_PORT)

HealthUrl(port, health_path) == <<"h", "t", "t", "p", ":", "/", "/", "l", "o", "c", "a", "l", "h", "o", "s", "t", ":">> \o StrDigits(port) \o health_path

PARTICIPANT_TEMPLATE(name, image, port, env, health_path, pull_policy) ==
    [name |-> name, image |-> image, pull_policy |-> pull_policy,
     container_name |-> name, port |-> port, environment |-> env,
     healthcheck |-> HealthUrl(port, health_path), depends_on |-> <<>>]

\* The service blocks of docker-compose.yml in text order: green-agent, the
\* participants, agentbeats-client
COMPOSE_TEMPLATE(green_image, green_port, green_env, green_health_path, green_depends, participant_services, client_depends, green_pull_policy) ==
    <<[name |-> GREEN_SERVICE, image |-> green_image,
       pull_policy |-> green_pull_policy, container_name |-> GREEN_SERVICE,
       port |-> green_port, environment |-> green_env,
       healthcheck |-> HealthUrl(green_port, green_health_path),
       depends_on |-> green_depends]>>
    \o participant_services
    \o <<[name |-> <<"a", "g", "e", "n", "t", "b", "e", "a", "t", "s", "-", "c", "l", "i", "e", "n", "t">>,
          image |-> <<"g", "h", "c", "r", ".", "i", "o", "/", "a", "g", "e", "n", "t", "b", "e", "a", "t", "s", "/", "a", "g", "e", "n", "t", "b", "e", "a", "t", "s", "-", "c", "l", "i", "e", "n", "t", ":", "v", "1", ".", "0", ".", "0">>,
          pull_policy |-> "platform: linux/amd64",
          container_name |-> <<"a", "g", "e", "n", "t", "b", "e", "a", "t", "s", "-", "c", "l", "i", "e", "n", "t">>,
          depends_on |-> client_depends]>>

\* A rendering call: what it returned, or the exception it raised instead
Returned(value) == [raised |-> NoException, value |-> value]

Raised(exception) == [raised |-> exception, value |-> <<>>]

\* The service block of one participant: its environment holds its own
\* CARD_URL, its health path is computed from the env its table declares
ParticipantService(p) ==
    PARTICIPANT_TEMPLATE(
        p.name, p.image, DEFAULT_PORT,
        format_env_vars(("CARD_URL" :> CardUrl(p.name)) @@ Get(p, "env", <<>>)),
        get_health_check_path(Get(p, "agent_name", None), Get(p, "env", <<>>)),
        get_pull_policy(p.image))

generate_docker_compose(scenario) ==
    LET green == scenario.green_agent
        participants == Get(scenario, "participants", <<>>)
        participant_names == [k \in DOMAIN participants |-> participants[k].name]
        green_env == ("CARD_URL" :> CardUrl(GREEN_SERVICE)) @@ Get(green, "env", <<>>)
    IN  IF \E k \in DOMAIN participants : "name" \notin DOMAIN participants[k]
        THEN Raised("KeyError")
        ELSE Returned(COMPOSE_TEMPLATE(
                green.image, DEFAULT_PORT, format_env_vars(green_env),
                get_health_check_path(Get(green, "agent_name", None), green_env),
                format_depends_on(participant_names),
                [k \in DOMAIN participants |-> ParticipantService(participants[k])],
                format_depends_on(<<GREEN_SERVICE>> \o participant_names),
                get_pull_policy(green.image)))

\* The injection written as env["CARD_URL"] = card_url, which changes the dict
\* the agent's table holds
InjectedInPlace(env, card_url) == ("CARD_URL" :> card_url) @@ env

\* The env dict of an agent's table after {**env, "CARD_URL": card_url} was
\* evaluated: the unpacking copies env into a new dict, env is not written to
EnvAfterInjection(env, card_url) == env

\* An agent's table after generate_docker_compose; p.get("env", {}) of a
\* table without env is a dict of its own
AgentAfterInjection(agent, host) ==
    IF "env" \in DOMAIN agent
    THEN [agent EXCEPT !.env = EnvAfterInjection(agent.env, CardUrl(host))]
    ELSE agent

\* The scenario dict as a returning generate_docker_compose leaves it
ScenarioAfterCompose(scenario) ==
    [key \in DOMAIN scenario |->
        IF key = "green_agent"
        THEN AgentAfterInjection(scenario.green_agent, GREEN_SERVICE)
        ELSE IF key = "participants"
        THEN [k \in DOMAIN scenario.participants |->
                 AgentAfterInjection(scenario.participants[k],
                                     scenario.participants[k].name)]
        ELSE scenario[key]]

Endpoint(host, port, path) ==
    <<"h", "t", "t", "p", ":", "/", "/">> \o host \o <<":">> \o StrDigits(port) \o path

\* a2a-scenario.toml: the [green_agent] table, the [[participants]] tables in
\* text order and the dict handed to tomli_w.dumps
A2A_SCENARIO_TEMPLATE(green_port, green_a2a_path, participants, config) ==
    [green_agent |-> [endpoint |-> Endpoint(GREEN_SERVICE, green_port, green_a2a_path)],
     participants |-> participants,
     config |-> config]

\* if "agentbeats_id" in p: the table of the participant gets its line
WithAgentbeatsId(p, lines) ==
    IF "agentbeats_id" \in DOMAIN p
    THEN ("agentbeats_id" :> p.agentbeats_id) @@ lines
    ELSE lines

\* The [[participants]] table of one participant
ParticipantLines(p) ==
    WithAgentbeatsId(p,
        [role |-> p.name,
         endpoint |-> Endpoint(p.name, DEFAULT_PORT,
                               get_agent_base_path(Get(p, "agent_name", None),
                                                   Get(p, "env", <<>>)))])

generate_a2a_scenario(scenario) ==
    LET green == scenario.green_agent
        participants == Get(scenario, "participants", <<>>)
    IN  IF \E k \in DOMAIN participants : "name" \notin DOMAIN participants[k]
        THEN Raised("KeyError")
        ELSE Returned(A2A_SCENARIO_TEMPLATE(
                DEFAULT_PORT,
                get_agent_base_path(Get(green, "agent_name", None),
                                    Get(green, "env", <<>>)),
                [k \in DOMAIN participants |-> ParticipantLines(participants[k])],
                [config |-> Get(scenario, "config", <<>>)]))

generate_env_file(scenario) ==
    LET all_agents == <<scenario.green_agent>> \o Get(scenario, "participants", <<>>)
        secrets == UNION { UNION { Range(FindAll(value, 1)) :
                                     value \in Range(Get(all_agents[k], "env", <<>>)) } :
                           k \in DOMAIN all_agents }
        ordered == Sorted(secrets)
    IN  IF secrets = {} THEN <<>>
        ELSE Join([k \in DOMAIN ordered |-> ordered[k] \o <<"=">>], <<"\n">>) \o <<"\n">>

-----------------------------------------------------------------------------
(* main, statement by statement *)

Paths == {COMPOSE_PATH, A2A_SCENARIO_PATH, ENV_PATH}

Untouched == [state |-> "untouched", content |-> <<>>]

\* open(path, "w") truncates; f.write(content) follows once content is computed
Truncated == [state |-> "truncated", content |-> <<>>]

Written(content) == [state |-> "written", content |-> content]

\* A failed call that returns to its caller
AfterCall_returning(r, next) == next

\* Where main is after a call: sys.exit(1) and an uncaught exception end it
AfterCall(r, next) ==
    IF r.exit THEN "exit" ELSE IF r.raised # NoException THEN "raised" ELSE next

Logged(agent, fetched) ==
    [k \in DOMAIN fetched |-> ("agent" :> agent) @@ fetched[k]]

\* One call of resolve_image: the agent it was for and how it ended
Call(agent, r) ==
    [agent |-> agent, printed |-> r.printed, exit |-> r.exit, raised |-> r.raised]

\* main up to the call of parse_scenario, and the tomli.loads of its first line
Main ==
    /\ pc = "main"
    /\ IF ~exists
       THEN /\ out' = Append(out, Printed("Error: {args.scenario} not found", <<>>))
            /\ pc' = "exit"
            /\ data' = data
       ELSE /\ data' = scenario_file
            /\ pc' = "resolve_green"
            /\ out' = out
    /\ UNCHANGED <<exists, GITHUB_ACTIONS, scenario_file, idx, exc, resolved,
                   lookups, files, arg_agent_name, arg_env, ret>>

\* parse_scenario: green = data.get("green_agent", {}); resolve_image(green, ...)
ResolveGreen ==
    /\ pc = "resolve_green"
    /\ \E reply \in Replies :
        LET green == Get(data, "green_agent", <<>>)
            r == resolve_image(green, GREEN_LABEL, reply)
        IN  /\ data' = IF "green_agent" \in DOMAIN data
                       THEN [data EXCEPT !.green_agent = r.agent]
                       ELSE data
            /\ out' = out \o r.printed
            /\ exc' = r.raised
            /\ resolved' = Append(resolved, Call(0, r))
            /\ lookups' = lookups \o Logged(0, r.fetched)
            /\ pc' = AfterCall(r, "check_duplicates")
    /\ UNCHANGED <<exists, GITHUB_ACTIONS, scenario_file, idx, files,
                   arg_agent_name, arg_env, ret>>

Count(names, name) == Cardinality({k \in DOMAIN names : names[k] = name})

\* The orders in which a list built by iterating over set(...) can come out
Orders(S) ==
    {order \in [1..Cardinality(S) -> S] : \A x \in S : \E k \in DOMAIN order : order[k] = x}

Duplicates(participants) ==
    LET names == [k \in DOMAIN participants |-> Get(participants[k], "name", None)]
    IN  {name \in Range(names) : Count(names, name) > 1}

\* parse_scenario: the duplicate participant names check
CheckDuplicates ==
    /\ pc = "check_duplicates"
    /\ LET participants == Get(data, "participants", <<>>)
       IN  \E duplicates \in Orders(Duplicates(participants)) :
            IF duplicates = <<>>
            THEN /\ pc' = IF participants = <<>> THEN "write_compose"
                          ELSE "resolve_participant"
                 /\ UNCHANGED <<out, exc>>
            ELSE IF None \in Range(duplicates)
            THEN \* ', '.join raises on an item that is not a str
                 /\ exc' = "TypeError"
                 /\ pc' = "raised"
                 /\ out' = out
            ELSE /\ out' = out \o
                     <<Printed(FMT_DUPLICATES, <<Join(duplicates, <<",", " ">>)>>),
                       Printed("Each participant must have a unique name.", <<>>)>>
                 /\ pc' = "exit"
                 /\ exc' = exc
    /\ UNCHANGED <<exists, GITHUB_ACTIONS, scenario_file, data, idx, resolved,
                   lookups, files, arg_agent_name, arg_env, ret>>

\* parse_scenario: one turn of the loop over the participants
ResolveParticipant ==
    /\ pc = "resolve_participant"
    /\ \E reply \in Replies :
        LET participant == data.participants[idx]
            r == resolve_image(participant, ParticipantLabel(participant), reply)
            next == IF idx = Len(data.participants) THEN "write_compose"
                    ELSE "resolve_participant"
        IN  /\ data' = [data EXCEPT !.participants[idx] = r.agent]
            /\ out' = out \o r.printed
            /\ exc' = r.raised
            /\ resolved' = Append(resolved, Call(idx, r))
            /\ lookups' = lookups \o Logged(idx, r.fetched)
            /\ pc' = AfterCall(r, next)
            /\ idx' = IF AfterCall(r, next) = "resolve_participant" THEN idx + 1 ELSE idx
    /\ UNCHANGED <<exists, GITHUB_ACTIONS, scenario_file, files, arg_agent_name,
                   arg_env, ret>>

\* with open(path, "w") as f: f.write(content): the file is opened, and so
\* emptied, before the content is rendered; an exception of the rendering
\* ends the run with the file left empty
WriteFile(path, content, then) ==
    IF content.raised # NoException
    THEN /\ files' = [files EXCEPT ![path] = Truncated]
         /\ exc' = content.raised
         /\ pc' = "raised"
    ELSE /\ files' = [files EXCEPT ![path] = Written(content.value)]
         /\ exc' = exc
         /\ pc' = then

\* with open(COMPOSE_PATH, "w") as f: f.write(generate_docker_compose(scenario))
WriteCompose ==
    /\ pc = "write_compose"
    /\ WriteFile(COMPOSE_PATH, generate_docker_compose(data), "write_a2a")
    /\ data' = IF generate_docker_compose(data).raised # NoException
               THEN data
               ELSE ScenarioAfterCompose(data)
    /\ UNCHANGED <<exists, GITHUB_ACTIONS, scenario_file, idx, out, resolved,
                   lookups, arg_agent_name, arg_env, ret>>

\* with open(A2A_SCENARIO_PATH, "w") as f: f.write(generate_a2a_scenario(scenario))
WriteA2A ==
    /\ pc = "write_a2a"
    /\ WriteFile(A2A_SCENARIO_PATH, generate_a2a_scenario(data), "write_env")
    /\ UNCHANGED <<exists, GITHUB_ACTIONS, scenario_file, data, idx, out, resolved,
                   lookups, arg_agent_name, arg_env, ret>>

\* main: the secrets file, written only when there is something to write
WriteEnv ==
    /\ pc = "write_env"
    /\ LET env_content == generate_env_file(data)
       IN  IF env_content # <<>>
           THEN /\ files' = [files EXCEPT ![ENV_PATH] = Written(env_content)]
                /\ out' = out \o <<Printed("Generated {ENV_PATH}", <<>>),
                                   Printed("Generated {COMPOSE_PATH} and {A2A_SCENARIO_PATH}", <<>>)>>
           ELSE /\ files' = files
                /\ out' = Append(out, Printed("Generated {COMPOSE_PATH} and {A2A_SCENARIO_PATH}", <<>>))
    /\ pc' = "done"
    /\ UNCHANGED <<exists, GITHUB_ACTIONS, scenario_file, data, idx, exc, resolved,
                   lookups, arg_agent_name, arg_env, ret>>

Next ==
    \/ Main
    \/ ResolveGreen
    \/ CheckDuplicates
    \/ ResolveParticipant
    \/ WriteCompose
    \/ WriteA2A
    \/ WriteEnv

-----------------------------------------------------------------------------
(* The scenarios drawn *)

MaxParticipants == 3
MaxNamed == 3
MaxRendered == 2

SeqsUpTo(S, n) == UNION {[1..m -> S] : m \in 0..n}

IMAGE == <<"g", ":", "1">>
CATALOG_ID == <<"i", "d", "1">>

Identities ==
    { [image |-> IMAGE],
      [agentbeats_id |-> CATALOG_ID],
      [image |-> IMAGE, agentbeats_id |-> CATALOG_ID],
      <<>> }

\* GITHUB_ACTIONS unset, set to the empty string, set by the CI runner
Flags == {None, <<>>, <<"t", "r", "u", "e">>}

InitMain(Scenarios, flags) ==
    /\ pc = "main"
    /\ \/ /\ exists = TRUE
          /\ scenario_file \in Scenarios
          /\ GITHUB_ACTIONS \in flags
       \/ /\ exists = FALSE
          /\ scenario_file = <<>>
          /\ GITHUB_ACTIONS = None
    /\ data = <<>>
    /\ idx = 1
    /\ out = <<>>
    /\ exc = NoException
    /\ resolved = <<>>
    /\ lookups = <<>>
    /\ files = [p \in Paths |-> Untouched]
    /\ arg_agent_name = None
    /\ arg_env = <<>>
    /\ ret = <<>>

\* Identities and the CI flag vary; two names, so that names can repeat
ResolveScenarios ==
    { [green_agent |-> g, participants |-> ps] :
        g \in Identities,
        ps \in SeqsUpTo({("name" :> n) @@ i : n \in {<<"a">>, <<"b">>}, i \in Identities},
                        MaxParticipants) }

Init == InitMain(ResolveScenarios, Flags)

Spec == Init /\ [][Next]_vars

\* Names vary: missing, repeated, and the coordinator's service name
NamedParticipants ==
    {[image |-> IMAGE]} \cup
    {[name |-> n, image |-> IMAGE] : n \in {<<"a">>, <<"b">>, GREEN_SERVICE}}

NameScenarios ==
    { [green_agent |-> [image |-> IMAGE], participants |-> ps] :
        ps \in SeqsUpTo(NamedParticipants, MaxNamed) }
    \cup { [green_agent |-> [image |-> IMAGE]],
           [participants |-> <<[name |-> <<"a">>, image |-> IMAGE]>>] }

InitNames == InitMain(NameScenarios, {None})

SpecNames == InitNames /\ [][Next]_vars

\* Aliases and declared environments vary; every identity resolves unless
\* the catalog fails.  One participant name is itself a placeholder, so that
\* the address injected for it holds one too
URL_BAR == <<"h", "t", "t", "p", ":", "/", "/", "x", "/", "b", "a", "r", "/">>

Profiles ==
    { <<>>,
      [env |-> <<>>],
      [agent_name |-> <<"f">>, env |-> [CARD_URL |-> URL_BAR]],
      [env |-> [CARD_URL |-> URL_BAR]],
      [env |-> [TOKEN |-> <<"$", "{", "A", "P", "I", "_", "T", "O", "K", "E", "N", "}">>, EXTRA |-> <<"$", "{", "A", "P", "I", "_", "T", "O", "K", "E", "N", "}", "-", "$", "{", "S", "E", "C", "O", "N", "D", "}">>]],
      [agent_name |-> <<>>,
       env |-> [CARD_URL |-> <<"$", "{", "C", "A", "R", "D", "}">>, NOTE |-> <<"$", "{", "A", "}", "$", "{", "}", "\"", "$", "{", "\\">>]] }

RenderedAgents == {[image |-> IMAGE] @@ profile : profile \in Profiles}

RenderedParticipants ==
    { [image |-> IMAGE],
      [image |-> IMAGE, agent_name |-> <<"f">>, env |-> [CARD_URL |-> URL_BAR]],
      [image |-> IMAGE, env |-> [CARD_URL |-> URL_BAR]],
      [agentbeats_id |-> CATALOG_ID,
       env |-> [KEY |-> <<"$", "{", "B", "_", "K", "E", "Y", "}">>, TOKEN |-> <<"$", "{", "A", "P", "I", "_", "T", "O", "K", "E", "N", "}">>]] }

RenderScenarios ==
    { [green_agent |-> g, participants |-> ps, config |-> [domain |-> <<"a", "i", "r", "l", "i", "n", "e">>]] :
        g \in RenderedAgents,
        ps \in SeqsUpTo({("name" :> n) @@ p : n \in {<<"a">>, <<"$", "{", "n", "}">>},
                                               p \in RenderedParticipants},
                        MaxRendered) }

InitRender == InitMain(RenderScenarios, {None})

SpecRender == InitRender /\ [][Next]_vars

-----------------------------------------------------------------------------
(* get_agent_base_path and get_health_check_path on their own *)

AgentNames == {None, <<>>, <<"f">>, <<"t", "a", "u", "2", "_", "a", "g", "e", "n", "t">>}

UrlValues ==
    { <<>>, URL_BAR, <<"h", "t", "t", "p", ":", "/", "/", "x", "/", "b", "a", "r">>, <<"h", "t", "t", "p", ":", "/", "/", "x", "/", "b", "a", "r", "/", "/">>, <<"h", "t", "t", "p", ":", "/", "/", "x">>,
      <<"h", "t", "t", "p", ":", "/", "/", "x", "/">>, <<"h", "t", "t", "p", ":", "/", "/", "x", "/", "/">>, <<"h", "t", "t", "p", ":", "/", "/", "x", "/", "b", "/", "c", "/">>, <<"$", "{", "C", "A", "R", "D", "_", "U", "R", "L", "}">>,
      <<"$", "{", "H", "O", "S", "T", "}", "/", "b", "a", "r">>, <<"h", "t", "t", "p", ":", "/", "/", "$", "{", "H", "O", "S", "T", "}", "/", "b", "a", "r">>, <<"b", "a", "r", "/">>, <<"/", "b", "a", "r">>,
      <<"h", "t", "t", "p", ":", "/", "/", "x", "/", "b", "a", "r", "?", "q", "=", "1">>, <<"h", "t", "t", "p", ":", "/", "/", "x", "/", "b", "a", "r", "/", "#", "t", "o", "p">>, <<"h", "t", "t", "p", ":", "/", "/", "x", ":", "9", "0", "0", "9", "/", "a", "2", "a", "/", "f", "/">>,
      <<"x", ":", "9", "0", "0", "9", "/", "b", "a", "r">>, <<"/", "/", "x", "/", "b", "a", "r">>, <<" ", "$", "{", "X", "}", "/", "b", "a", "r">> }

PathEnvs ==
    {<<>>}
    \cup {[CARD_URL |-> v] : v \in UrlValues}
    \cup {[API_URL |-> v] : v \in UrlValues}
    \cup {[CARD_URL |-> v, API_URL |-> w] :
            v \in UrlValues, w \in {URL_BAR, <<"h", "t", "t", "p", ":", "/", "/", "y", "/", "a", "p", "i">>}}

CallBasePath ==
    /\ pc = "call"
    /\ ret' = [base |-> get_agent_base_path(arg_agent_name, arg_env)]
    /\ pc' = "base"
    /\ UNCHANGED <<exists, GITHUB_ACTIONS, scenario_file, data, idx, out, exc,
                   resolved, lookups, files, arg_agent_name, arg_env>>

CallHealthPath ==
    /\ pc = "base"
    /\ ret' = ("health" :> get_health_check_path(arg_agent_name, arg_env)) @@ ret
    /\ pc' = "health"
    /\ UNCHANGED <<exists, GITHUB_ACTIONS, scenario_file, data, idx, out, exc,
                   resolved, lookups, files, arg_agent_name, arg_env>>

InitPath ==
    /\ pc = "call"
    /\ arg_agent_name \in AgentNames
    /\ arg_env \in PathEnvs
    /\ ret = <<>>
    /\ exists = FALSE
    /\ GITHUB_ACTIONS = None
    /\ scenario_file = <<>>
    /\ data = <<>>
    /\ idx = 1
    /\ out = <<>>
    /\ exc = NoException
    /\ resolved = <<>>
    /\ lookups = <<>>
    /\ files = [p \in Paths |-> Untouched]

NextPath == CallBasePath \/ CallHealthPath

SpecPath == InitPath /\ [][NextPath]_vars

-----------------------------------------------------------------------------
(* The scenario as declared, and what a run has done *)

DeclaredParticipants == Get(scenario_file, "participants", <<>>)

\* Agent 0 is the coordinator, agent k >= 1 the k-th participant
Declared(k) ==
    IF k = 0 THEN Get(scenario_file, "green_agent", <<>>) ELSE DeclaredParticipants[k]

Current(k) == IF k = 0 THEN data.green_agent ELSE data.participants[k]

Label(k) == IF k = 0 THEN GREEN_LABEL ELSE ParticipantLabel(Declared(k))

HasBoth(agent) == "image" \in DOMAIN agent /\ "agentbeats_id" \in DOMAIN agent

HasNeither(agent) == "image" \notin DOMAIN agent /\ "agentbeats_id" \notin DOMAIN agent

ImageOnly(agent) == "image" \in DOMAIN agent /\ "agentbeats_id" \notin DOMAIN agent

Failed == pc \in {"exit", "raised"}

Last(s) == s[Len(s)]

\* The call ended the run, by sys.exit(1) or by an uncaught exception
Ended(call) == call.exit \/ call.raised # NoException

\* The call ended the run with this one error line, the last line printed
FailsWith(j, fmt) ==
    /\ resolved[j].exit
    /\ resolved[j].printed = <<Printed(fmt, <<Label(resolved[j].agent)>>)>>
    /\ j = Len(resolved)
    /\ pc = "exit"
    /\ out # <<>>
    /\ Last(out) = Printed(fmt, <<Label(resolved[j].agent)>>)

-----------------------------------------------------------------------------
(* C1 *)

\* C1: whenever resolve_image is called for an agent that declares both
\* 'image' and 'agentbeats_id', or neither, the call ends the run with the
\* both-fields or the neither-field error, whose text holds that agent's name;
\* for an agent that declares exactly one of them it prints neither error.
C1_ExactlyOneIdentity ==
    \A j \in DOMAIN resolved :
        LET agent == Declared(resolved[j].agent)
        IN  /\ HasBoth(agent) => FailsWith(j, FMT_BOTH)
            /\ HasNeither(agent) => FailsWith(j, FMT_NEITHER)
            /\ ~HasBoth(agent) /\ ~HasNeither(agent) =>
                   \A k \in DOMAIN resolved[j].printed :
                       resolved[j].printed[k].fmt \notin {FMT_BOTH, FMT_NEITHER}

\* A participant with both fields, reached after two agents that resolved
C1_Witness ==
    /\ Len(resolved) = 3
    /\ HasBoth(Declared(2))
    /\ ~Ended(resolved[1])
    /\ ~Ended(resolved[2])
    /\ pc = "exit"

-----------------------------------------------------------------------------
(* C10 *)

NoLookupFor(k) == \A l \in DOMAIN lookups : lookups[l].agent # k

\* What C10 says of the j-th call, with `flag` telling whether the run is
\* taken to be under continuous integration
DirectImage(j, flag) ==
    LET k == resolved[j].agent
        agent == Declared(k)
    IN  ImageOnly(agent) =>
            /\ NoLookupFor(k)
            /\ IF flag
               THEN FailsWith(j, FMT_CI)
               ELSE /\ ~Ended(resolved[j])
                    /\ resolved[j].printed =
                           <<Printed(FMT_USING, <<Label(k), agent.image>>)>>
                    /\ Current(k) = agent

\* C10 as stated: for an agent declaring only an image, GITHUB_ACTIONS set in
\* the process environment makes resolve_image fail naming the agent, and
\* GITHUB_ACTIONS not set makes it succeed with the declared image unchanged;
\* no catalog lookup is made either way.
C10_AsStated == \A j \in DOMAIN resolved : DirectImage(j, GITHUB_ACTIONS # None)

\* C10 as amended: the same, with the flag counted as set only when its value
\* is not empty, and GITHUB_ACTIONS set to the empty string counted as not set.
C10_NonEmptyFlag ==
    \A j \in DOMAIN resolved :
        DirectImage(j, GITHUB_ACTIONS # None /\ GITHUB_ACTIONS # <<>>)

\* A participant with only an image, refused under continuous integration
\* after the coordinator resolved through the catalog
C10_Witness ==
    /\ GITHUB_ACTIONS = <<"t", "r", "u", "e">>
    /\ Len(resolved) = 2
    /\ ImageOnly(Declared(1))
    /\ resolved[2].exit
    /\ pc = "exit"

-----------------------------------------------------------------------------
(* C7 *)

\* The identity fields of the agent, or the CI flag, make resolve_image fail
IdentityDefect(agent) ==
    \/ HasBoth(agent)
    \/ HasNeither(agent)
    \/ ImageOnly(agent) /\ Truthy(GITHUB_ACTIONS)

\* The catalog was asked for agent k and gave no image
LookupFailed(k) ==
    \E l \in DOMAIN lookups :
        /\ lookups[l].agent = k
        /\ ~(/\ lookups[l].reply.status = "ok"
             /\ "docker_image" \in DOMAIN lookups[l].reply.json)

Bad(k) == IdentityDefect(Declared(k)) \/ LookupFailed(k)

DeclaredDuplicates == Duplicates(DeclaredParticipants)

DuplicatesReported == \E j \in DOMAIN out : out[j].fmt = FMT_DUPLICATES

\* The run ended in the duplicate names check
EndedAtDuplicates == Failed /\ (DuplicatesReported \/ exc = "TypeError")

\* Agent k is invalid or unresolvable: by itself, or by sharing its name
Invalid(k) ==
    \/ Bad(k)
    \/ k >= 1 /\ Get(Declared(k), "name", None) \in DeclaredDuplicates

\* C7 as stated: a run that fails on an invalid or unresolvable agent reports
\* the error of the first such agent in declaration order, the coordinator
\* before the participants.
C7_AsStated ==
    LET invalid == {k \in 0..Len(DeclaredParticipants) : Invalid(k)}
        first == CHOOSE k \in invalid : \A other \in invalid : k <= other
    IN  Failed /\ exists /\ invalid # {} =>
            IF EndedAtDuplicates
            THEN first >= 1 /\ Get(Declared(first), "name", None) \in DeclaredDuplicates
            ELSE Last(resolved).agent = first /\ Ended(Last(resolved))

\* C7 as amended: resolve_image is called for the agents in declaration
\* order, the coordinator first, and a call that fails ends the run at once,
\* so no later agent is resolved or looked up; the names of all participants
\* are checked after the coordinator and before any participant is resolved,
\* so repeated names are reported in preference to any participant's own
\* error; a run that fails in parse_scenario fails at the coordinator if it is
\* bad, else at the names if some repeat, else at the first bad participant.
C7_FailFast ==
    LET n == Len(DeclaredParticipants) IN
    /\ \A j \in DOMAIN resolved : resolved[j].agent = j - 1
    /\ \A l \in DOMAIN lookups :
           /\ \E j \in DOMAIN resolved : resolved[j].agent = lookups[l].agent
           /\ \A m \in DOMAIN lookups : m < l => lookups[m].agent < lookups[l].agent
    /\ \A j \in DOMAIN resolved :
           /\ Ended(resolved[j]) <=> Bad(j - 1)
           /\ Ended(resolved[j]) => Failed /\ j = Len(resolved)
    /\ Len(resolved) >= 2 => DeclaredDuplicates = {}
    /\ EndedAtDuplicates => Len(resolved) = 1 /\ DeclaredDuplicates # {}
    /\ Failed /\ exists =>
           IF Bad(0) THEN Len(resolved) = 1 /\ ~EndedAtDuplicates
           ELSE IF DeclaredDuplicates # {} THEN EndedAtDuplicates
           ELSE \/ Ended(Last(resolved))
                \/ Len(resolved) = n + 1 /\ \A k \in 0..n : ~Bad(k)
    /\ pc \in {"write_compose", "write_a2a", "write_env", "done"} =>
           /\ Len(resolved) = n + 1
           /\ DeclaredDuplicates = {}
           /\ \A k \in 0..n : ~Bad(k)

\* The first participant fails in resolve_image while the second, never
\* looked at, is invalid as well
C7_Witness ==
    /\ pc = "exit"
    /\ Len(resolved) = 2
    /\ Bad(1)
    /\ Len(DeclaredParticipants) >= 2
    /\ IdentityDefect(Declared(2))

-----------------------------------------------------------------------------
(* C2 *)

\* C2: a run of main that ends in an error has left all three artifact files
\* untouched, none of them created or truncated; and once parse_scenario has
\* returned, the run goes on to write the artifacts and does not fail.
C2_NoPartialArtifacts ==
    /\ Failed => \A p \in Paths : files[p].state = "untouched"
    /\ \A p \in Paths : files[p].state # "truncated"

-----------------------------------------------------------------------------
(* C6 *)

Services == files[COMPOSE_PATH].content

\* C6: no scenario in which two agents share a name gets past parse_scenario,
\* the coordinator counted under its service name green-agent; so the service
\* blocks of a written docker-compose.yml have pairwise distinct names and
\* none of them depends on itself.
C6_DistinctNames ==
    /\ pc \in {"write_compose", "write_a2a", "write_env", "done"} =>
           \A k \in DOMAIN DeclaredParticipants :
               /\ Get(DeclaredParticipants[k], "name", None) # GREEN_SERVICE
               /\ \A m \in DOMAIN DeclaredParticipants :
                      k # m => Get(DeclaredParticipants[k], "name", None)
                               # Get(DeclaredParticipants[m], "name", None)
    /\ files[COMPOSE_PATH].state = "written" =>
           /\ \A k, m \in DOMAIN Services :
                  k # m => Services[k].name # Services[m].name
           /\ \A k \in DOMAIN Services :
                  \A d \in DOMAIN Services[k].depends_on :
                      Services[k].depends_on[d].service # Services[k].name

-----------------------------------------------------------------------------
(* C9 *)

\* The duplicate names check has been passed or has ended the run
DuplicatesChecked ==
    /\ resolved # <<>>
    /\ ~Ended(resolved[1])
    /\ pc \notin {"resolve_green", "check_duplicates"}

\* C9: once the names are checked, a participant list in which some name
\* repeats (a missing name counted as a name) has ended the run with the
\* duplicate names error, which lists every repeated name once and no other
\* name; a list of pairwise distinct names has not.
C9_DuplicatesListed ==
    DuplicatesChecked =>
        IF DeclaredDuplicates # {}
        THEN /\ pc = "exit"
             /\ Len(out) >= 2
             /\ out[Len(out) - 1].fmt = FMT_DUPLICATES
             /\ \E order \in Orders(DeclaredDuplicates) :
                    out[Len(out) - 1].args =
                        <<Join([k \in DOMAIN order |->
                                   IF order[k] = None THEN <<"N", "o", "n", "e">> ELSE order[k]],
                               <<",", " ">>)>>
        ELSE ~EndedAtDuplicates

-----------------------------------------------------------------------------
(* C3 *)

Routing == files[A2A_SCENARIO_PATH].content

DropPrefix(s, prefix) == SubSeq(s, Len(prefix) + 1, Len(s))

\* The endpoint declared in a2a-scenario.toml for the agent of the k-th
\* service block
RoutedEndpoint(k) ==
    IF k = 1 THEN Routing.green_agent.endpoint ELSE Routing.participants[k - 1].endpoint

\* C3: for the coordinator and every participant, the path probed by the
\* health check of its service in docker-compose.yml is the base path of its
\* endpoint in a2a-scenario.toml followed by "/.well-known/agent-card.json".
C3_HealthUnderBasePath ==
    files[COMPOSE_PATH].state = "written" /\ files[A2A_SCENARIO_PATH].state = "written" =>
        \A k \in 1..(Len(Services) - 1) :
            LET address == Endpoint(Services[k].name, DEFAULT_PORT, <<>>)
                base_path == DropPrefix(RoutedEndpoint(k), address)
            IN  /\ StartsWith(RoutedEndpoint(k), address)
                /\ Services[k].healthcheck =
                       <<"h", "t", "t", "p", ":", "/", "/", "l", "o", "c", "a", "l", "h", "o", "s", "t", ":">> \o StrDigits(DEFAULT_PORT)
                           \o base_path \o WELL_KNOWN

-----------------------------------------------------------------------------
(* C5 *)

Healthy(service) == [service |-> service, condition |-> "service_healthy"]

\* C5: in a written docker-compose.yml the last block, agentbeats-client,
\* depends on green-agent and then on every participant, green-agent depends
\* on every participant, both in declaration order and on nothing else, each
\* edge with the condition service_healthy, and no participant block has a
\* dependency.
C5_DependencyWiring ==
    files[COMPOSE_PATH].state = "written" =>
        LET n == Len(DeclaredParticipants)
            client == Services[Len(Services)].depends_on
            green == Services[1].depends_on
        IN  /\ Len(Services) = n + 2
            /\ Services[1].name = GREEN_SERVICE
            /\ Services[n + 2].name = <<"a", "g", "e", "n", "t", "b", "e", "a", "t", "s", "-", "c", "l", "i", "e", "n", "t">>
            /\ Len(client) = n + 1
            /\ client[1] = Healthy(GREEN_SERVICE)
            /\ Len(green) = n
            /\ \A k \in 1..n :
                   /\ Services[k + 1].name = DeclaredParticipants[k].name
                   /\ Services[k + 1].depends_on = <<>>
                   /\ green[k] = Healthy(DeclaredParticipants[k].name)
                   /\ client[k + 1] = Healthy(DeclaredParticipants[k].name)

\* Two participants, so that the order of the edges shows
C5_Witness ==
    /\ files[COMPOSE_PATH].state = "written"
    /\ Len(DeclaredParticipants) = 2
    /\ Len(Services[1].depends_on) = 2
    /\ Len(Services[4].depends_on) = 3

-----------------------------------------------------------------------------
(* C8 *)

\* The names of the placeholders of a value: what stands between a "${" and
\* the next "}", when that is not empty
PlaceholderNames(value) ==
    LET spans == {span \in (1..Len(value)) \X (1..Len(value)) :
                     /\ span[1] + 2 < span[2]
                     /\ value[span[1]] = "$"
                     /\ value[span[1] + 1] = "{"
                     /\ value[span[2]] = "}"
                     /\ \A c \in (span[1] + 2)..(span[2] - 1) : value[c] # "}"}
    IN  {SubSeq(value, span[1] + 2, span[2] - 1) : span \in spans}

\* The placeholder names of the env values the scenario file declares
DeclaredSecrets ==
    UNION { UNION {PlaceholderNames(value) :
                      value \in Range(Get(Declared(k), "env", <<>>))} :
            k \in 0..Len(DeclaredParticipants) }

\* The text cut at its newlines
RECURSIVE TextLines(_)
TextLines(text) ==
    LET newline == Find(text, {"\n"}, 1)
    IN  IF text = <<>> THEN <<>>
        ELSE IF newline = 0 THEN <<text>>
        ELSE <<SubSeq(text, 1, newline - 1)>>
                 \o TextLines(SubSeq(text, newline + 1, Len(text)))

\* C8: when main has finished, .env.example holds one line NAME= for every
\* placeholder name ${NAME} of the env values declared for the coordinator
\* and the participants and no other line, each name once, the lines in
\* ascending order and each ended by a newline; when the declared values hold
\* no placeholder, the file has not been written.
C8_SecretsFile ==
    pc = "done" =>
        IF DeclaredSecrets = {}
        THEN files[ENV_PATH].state = "untouched"
        ELSE LET text == files[ENV_PATH].content
                 lines == TextLines(text)
             IN  /\ files[ENV_PATH].state = "written"
                 /\ Last(text) = "\n"
                 /\ Len(lines) = Cardinality(DeclaredSecrets)
                 /\ \A k \in DOMAIN lines :
                        /\ Last(lines[k]) = "="
                        /\ SubSeq(lines[k], 1, Len(lines[k]) - 1) \in DeclaredSecrets
                 /\ \A k \in DOMAIN lines :
                        k > 1 => StrLess(lines[k - 1], lines[k])

\* A value with two placeholders, one of them declared by two agents
C8_Witness ==
    /\ pc = "done"
    /\ Len(TextLines(files[ENV_PATH].content)) >= 3
    /\ \E k \in 1..Len(DeclaredParticipants) :
           /\ "env" \in DOMAIN Declared(0)
           /\ "env" \in DOMAIN Declared(k)
           /\ \E v \in Range(Declared(0).env), w \in Range(Declared(k).env) :
                  /\ Cardinality(PlaceholderNames(v)) = 2
                  /\ PlaceholderNames(v) \cap PlaceholderNames(w) # {}

-----------------------------------------------------------------------------
(* C4 *)

\* The value is a URL that does not begin with "${" and whose path is more
\* than slashes
Usable(value) ==
    /\ value # <<>>
    /\ ~StartsWith(value, <<"$", "{">>)
    /\ \E k \in DOMAIN UrlPath(value) : UrlPath(value)[k] # "/"

\* path is the URL path of value without its trailing slashes
StrippedPath(path, value) ==
    /\ path # <<>>
    /\ Last(path) # "/"
    /\ \E slashes \in 0..Len(UrlPath(value)) :
           UrlPath(value) = path \o [k \in 1..slashes |-> "/"]

\* C4 as stated: a non-empty agent_name gives "/a2a/" + agent_name whatever
\* env holds; otherwise a URL among the values of env that does not begin with
\* "${" and has a non-empty path gives that path, its trailing slashes
\* stripped; in every other case the result is the empty string.
C4_AsStated ==
    pc # "call" =>
        IF Truthy(arg_agent_name) THEN ret.base = <<"/", "a", "2", "a", "/">> \o arg_agent_name
        ELSE IF \E value \in Range(arg_env) : Usable(value)
        THEN \E value \in Range(arg_env) :
                 Usable(value) /\ StrippedPath(ret.base, value)
        ELSE ret.base = <<>>

\* C4 as amended: the same, with the URL taken from the value of the env key
\* CARD_URL alone; a URL under any other key counts for nothing.
C4_Precedence ==
    pc # "call" =>
        LET card_url == Get(arg_env, "CARD_URL", <<>>)
        IN  IF Truthy(arg_agent_name) THEN ret.base = <<"/", "a", "2", "a", "/">> \o arg_agent_name
            ELSE IF Usable(card_url) THEN StrippedPath(ret.base, card_url)
            ELSE ret.base = <<>>

\* No agent_name, a placeholder under CARD_URL and a URL with a path under
\* another key: the base path is empty
C4_Witness ==
    /\ pc = "base"
    /\ arg_agent_name = None
    /\ DOMAIN arg_env = {"CARD_URL", "API_URL"}
    /\ StartsWith(arg_env.CARD_URL, <<"$", "{">>)
    /\ Usable(arg_env.API_URL)
    /\ ret.base = <<>>


-----------------------------------------------------------------------------
(* C11: the injected CARD_URL and the declared env *)

\* The address a service announces: its name on the network and the port
SelfAddress(name) == <<"h", "t", "t", "p", ":", "/", "/">> \o name \o <<":", "9", "0", "0", "9">>

\* The env of every agent of a scenario dict, None for a table without one
Envs(scenario) ==
    <<Get(scenario.green_agent, "env", None)>>
        \o [k \in DOMAIN Get(scenario, "participants", <<>>) |->
               Get(scenario.participants[k], "env", None)]

\* The base path of the k-th service's agent, from what its table declares
DeclaredBasePath(k) ==
    get_agent_base_path(Get(Declared(k - 1), "agent_name", None),
                        Get(Declared(k - 1), "env", <<>>))

\* The files: every service block announces its own address, every routing
\* endpoint has the base path of the declared env, and the secrets file is
\* the scan of the declared scenario
InjectionRendered ==
    /\ files[COMPOSE_PATH].state = "written" =>
           \A k \in 1..(Len(Services) - 1) :
               Services[k].environment.CARD_URL = SelfAddress(Services[k].name)
    /\ files[A2A_SCENARIO_PATH].state = "written" =>
           \A k \in 1..(Len(Services) - 1) :
               RoutedEndpoint(k) = SelfAddress(Services[k].name) \o DeclaredBasePath(k)
    /\ pc = "done" =>
           /\ Envs(data) = Envs(scenario_file)
           /\ IF generate_env_file(scenario_file) = <<>>
              THEN files[ENV_PATH].state = "untouched"
              ELSE /\ files[ENV_PATH].state = "written"
                   /\ files[ENV_PATH].content = generate_env_file(scenario_file)

\* The step in which generate_docker_compose returns
ComposeReturns == pc = "write_compose" /\ pc' = "write_a2a"

\* The scenario's env mappings and the two other texts are the same after
\* generate_docker_compose as before it
InjectionLeavesScenario ==
    ComposeReturns =>
        /\ Envs(data') = Envs(data)
        /\ generate_a2a_scenario(data') = generate_a2a_scenario(data)
        /\ generate_env_file(data') = generate_env_file(data)

\* C11: generate_docker_compose puts CARD_URL = http://<service name>:<port>
\* into the environment of every agent's service block and changes no
\* agent's declared env: the env mappings of the scenario are the same after
\* it as before, generate_a2a_scenario and generate_env_file give the same
\* text after it as before, and neither the secrets file nor a routing base
\* path is computed from the injected address.
C11_InjectionIsOverlay == []InjectionRendered /\ [][InjectionLeavesScenario]_vars

\* A finished run whose coordinator declares a CARD_URL of its own and which
\* has a participant whose name, and so whose injected address, holds a
\* placeholder: the coordinator is routed under the path of its declared URL
\* and the secrets file does not name the placeholder of the address
C11_Witness ==
    /\ pc = "done"
    /\ "env" \in DOMAIN Declared(0)
    /\ Get(Declared(0).env, "CARD_URL", <<>>) = URL_BAR
    /\ Get(Declared(0), "agent_name", None) = None
    /\ Services[1].environment.CARD_URL = SelfAddress(GREEN_SERVICE)
    /\ Routing.green_agent.endpoint = SelfAddress(GREEN_SERVICE) \o <<"/", "b", "a", "r">>
    /\ Len(DeclaredParticipants) = 2
    /\ DeclaredParticipants[1].name = <<"$", "{", "n", "}">>
    /\ "env" \in DOMAIN DeclaredParticipants[1]
    /\ Services[2].environment.CARD_URL = SelfAddress(<<"$", "{", "n", "}">>)
    /\ files[ENV_PATH].state = "written"
    /\ <<"n", "=">> \notin Range(TextLines(files[ENV_PATH].content))

-----------------------------------------------------------------------------
(* C12: catalog lookups and image writes *)

\* Agent k of a scenario dict, the empty table where the dict has none
AgentOf(scenario, k) ==
    IF k = 0 THEN Get(scenario, "green_agent", <<>>)
    ELSE IF k \in DOMAIN Get(scenario, "participants", <<>>)
    THEN scenario.participants[k]
    ELSE <<>>

ImageOf(scenario, k) == Get(AgentOf(scenario, k), "image", None)

\* The reply gave an image
Found(reply) == reply.status = "ok" /\ "docker_image" \in DOMAIN reply.json

\* The lookups made so far: each for an agent that declares a catalog id and
\* no image, asked with that id, no agent asked for twice; a lookup that gave
\* no image is the last one and ended the run in the call that made it
LookupsOnce ==
    /\ \A l \in DOMAIN lookups :
           /\ lookups[l].agent \in 0..Len(DeclaredParticipants)
           /\ "agentbeats_id" \in DOMAIN Declared(lookups[l].agent)
           /\ "image" \notin DOMAIN Declared(lookups[l].agent)
           /\ lookups[l].id = Declared(lookups[l].agent).agentbeats_id
           /\ \A m \in DOMAIN lookups : lookups[m].agent = lookups[l].agent => m = l
           /\ ~Found(lookups[l].reply) =>
                  /\ l = Len(lookups)
                  /\ Failed
                  /\ Last(resolved).agent = lookups[l].agent
                  /\ Ended(Last(resolved))
    /\ pc # "main" =>
           \A k \in 0..Len(DeclaredParticipants) :
               ImageOf(data, k) # ImageOf(scenario_file, k) =>
                   /\ ImageOf(scenario_file, k) = None
                   /\ \E l \in DOMAIN lookups :
                          /\ lookups[l].agent = k
                          /\ Found(lookups[l].reply)
                          /\ ImageOf(data, k) = lookups[l].reply.json.docker_image

\* A step writes the image of an agent only where there was none, together
\* with the one lookup made for that agent, which gave it; a run that has
\* failed makes no lookup and writes no image
ImageWrittenOnce ==
    /\ pc # "main" =>
           \A k \in 0..Len(DeclaredParticipants) :
               ImageOf(data', k) # ImageOf(data, k) =>
                   /\ ImageOf(data, k) = None
                   /\ Len(lookups') = Len(lookups) + 1
                   /\ Last(lookups').agent = k
                   /\ Found(Last(lookups').reply)
                   /\ \A j \in 0..Len(DeclaredParticipants) :
                          j # k => ImageOf(data', j) = ImageOf(data, j)
    /\ Len(lookups') <= Len(lookups) + 1
    /\ Failed => lookups' = lookups /\ data' = data

\* C12: in a run the catalog is asked at most once for an agent that
\* declares a catalog id and never for one that declares an image; the image
\* of an agent is written at most once; a lookup that fails is not repeated
\* and ends the run, so that no lookup and no image write follows it.
C12_LookupOnceNoRetry == []LookupsOnce /\ [][ImageWrittenOnce]_vars

\* Three agents that all declare a catalog id: the lookup for the
\* coordinator gave its image, the one for the first participant failed and
\* ended the run, and the second participant was never looked up
C12_Witness ==
    /\ Failed
    /\ Len(DeclaredParticipants) = 2
    /\ \A k \in 0..2 : DOMAIN Declared(k) \cap {"image", "agentbeats_id"} = {"agentbeats_id"}
    /\ Len(lookups) = 2
    /\ lookups[1].agent = 0 /\ Found(lookups[1].reply)
    /\ ImageOf(data, 0) = lookups[1].reply.json.docker_image
    /\ lookups[2].agent = 1 /\ ~Found(lookups[2].reply)
    /\ ImageOf(data, 1) = None
    /\ NoLookupFor(2)
====
